---------------------------- MODULE Spec2Model ----------------------------
(***************************************************************************)
(* Model of the subtitle extraction job engine of src/app.py: the job      *)
(* registry JOBS, the request handlers (upload, select_frame, set_roi,     *)
(* start_ocr, reset_roi, download), the background worker _ocr_worker, and *)
(* the text pipeline (_normalize_text, _filter_subtitle_lines,             *)
(* _dedupe_lines with difflib.SequenceMatcher.ratio).                      *)
(*                                                                         *)
(* Characters are modelled by name: the Hangul syllables of the sample     *)
(* subtitle are "ja" "mak" "ip" "ni" "da", ASCII letters are "a" "b",      *)
(* whitespace is " " and "\t", and "!" is a special character.  A line is  *)
(* a sequence of characters.                                               *)
(***************************************************************************)
EXTENDS Integers, Sequences, FiniteSets, TLC

VARIABLES
    JOBS,       \* the registry: job id -> job record (app.py:24)
    disk,       \* job id -> content of uploads/<job>/result.txt, or NoFile
    workers,    \* worker thread slot -> the thread's position and locals
    lastOp,     \* history: the step taken last (handler call or worker step)
    hist,       \* history: what has happened to each job and run so far
    lock,       \* JOBS_LOCK: 0 when free, else the thread that holds it
    handler,    \* a request thread followed statement by statement
    dd_lines,   \* the argument of a _dedupe_lines call under examination
    dd_out,     \* its return value
    dd_pc,      \* "idle" | "ready" | "done"
    fn_in,      \* the arguments of a pure function call under examination
    fn_out,     \* its return value
    fn_pc       \* "idle" | "ready" | "done"

vars == <<JOBS, disk, workers, lastOp, hist, lock, handler,
          dd_lines, dd_out, dd_pc, fn_in, fn_out, fn_pc>>
jobVars == <<JOBS, disk, workers, lastOp>>
lockVars == <<lock, handler>>
ddVars == <<dd_lines, dd_out, dd_pc>>
fnVars == <<fn_in, fn_out, fn_pc>>

-----------------------------------------------------------------------------
(* Bounds of the model *)

MaxPad == 1
MaxLines == 3
MaxJobs == 1
MaxWorkers == 1
MaxDuration == 2
MaxLongDuration == 130
MaxRaceWorkers == 2
MaxFilterLen == 5
MaxThumbDuration == 45

-----------------------------------------------------------------------------
(* Characters and character classes *)

Whitespace == {" ", "\t"}
Hangul == {"ja", "mak", "ip", "ni", "da"}
AsciiAlnum == {"a", "b"}

Min2(a, b) == IF a <= b THEN a ELSE b
Max2(a, b) == IF a >= b THEN a ELSE b

-----------------------------------------------------------------------------
(* _normalize_text: " ".join(text.strip().split()) *)

RECURSIVE LStrip(_)
LStrip(s) ==
    IF s # <<>> /\ Head(s) \in Whitespace THEN LStrip(Tail(s)) ELSE s

RECURSIVE RStrip(_)
RStrip(s) ==
    IF s # <<>> /\ s[Len(s)] \in Whitespace
    THEN RStrip(SubSeq(s, 1, Len(s) - 1))
    ELSE s

Strip(s) == RStrip(LStrip(s))

\* str.split() with no separator: the maximal runs of non-whitespace.
RECURSIVE SplitFrom(_, _, _)
SplitFrom(s, i, cur) ==
    IF i > Len(s)
    THEN (IF cur = <<>> THEN <<>> ELSE <<cur>>)
    ELSE IF s[i] \in Whitespace
         THEN (IF cur = <<>> THEN <<>> ELSE <<cur>>) \o SplitFrom(s, i + 1, <<>>)
         ELSE SplitFrom(s, i + 1, Append(cur, s[i]))

Split(s) == SplitFrom(s, 1, <<>>)

RECURSIVE JoinSpace(_)
JoinSpace(ws) ==
    IF ws = <<>> THEN <<>>
    ELSE IF Len(ws) = 1 THEN ws[1]
    ELSE ws[1] \o <<" ">> \o JoinSpace(Tail(ws))

_normalize_text(text) == JoinSpace(Split(Strip(text)))

-----------------------------------------------------------------------------
(* difflib.SequenceMatcher(None, a, b).ratio(), for sequences shorter than *)
(* 200 elements (no junk, the autojunk heuristic inactive).  Indices are   *)
(* 1-based and ranges lo..hi inclusive.                                    *)

RECURSIVE RunLen(_, _, _, _, _, _)
RunLen(a, b, i, j, ahi, bhi) ==
    IF i > ahi \/ j > bhi THEN 0
    ELSE IF a[i] # b[j] THEN 0
    ELSE 1 + RunLen(a, b, i + 1, j + 1, ahi, bhi)

\* find_longest_match: the longest common block of a[alo..ahi], b[blo..bhi];
\* of the longest, the one starting earliest in a, then earliest in b.
FindLongestMatch(a, b, alo, ahi, blo, bhi) ==
    LET cand == {<<i, j>> : i \in alo..ahi, j \in blo..bhi}
        k(p) == RunLen(a, b, p[1], p[2], ahi, bhi)
        best == IF cand = {} THEN 0
                ELSE CHOOSE n \in {k(p) : p \in cand} :
                        \A p \in cand : k(p) <= n
    IN  IF best = 0 THEN <<alo, blo, 0>>
        ELSE LET top == {p \in cand : k(p) = best}
                 bi == CHOOSE i \in {p[1] : p \in top} :
                          \A p \in top : i <= p[1]
                 bj == CHOOSE j \in {p[2] : p \in {q \in top : q[1] = bi}} :
                          \A p \in {q \in top : q[1] = bi} : j <= p[2]
             IN  <<bi, bj, best>>

\* get_matching_blocks: the sizes of the blocks found by recursing to the
\* left and to the right of each longest match, summed.
RECURSIVE MatchCount(_, _, _, _, _, _)
MatchCount(a, b, alo, ahi, blo, bhi) ==
    IF alo > ahi \/ blo > bhi THEN 0
    ELSE LET m == FindLongestMatch(a, b, alo, ahi, blo, bhi)
         IN  IF m[3] = 0 THEN 0
             ELSE m[3]
                  + MatchCount(a, b, alo, m[1] - 1, blo, m[2] - 1)
                  + MatchCount(a, b, m[1] + m[3], ahi, m[2] + m[3], bhi)

Matches(a, b) == MatchCount(a, b, 1, Len(a), 1, Len(b))

\* ratio() >= pct/100, where ratio() is 2.0 * matches / (len(a) + len(b))
\* and 1.0 when both are empty.
RatioAtLeast(a, b, pct) ==
    IF Len(a) + Len(b) = 0 THEN 100 >= pct
    ELSE 200 * Matches(a, b) >= pct * (Len(a) + Len(b))

SIMILARITY_PCT == 88

\* a variant that suppresses at half the threshold
SimilarToKept_Loose(normalized, results) ==
    \E n \in 1..Len(results) : RatioAtLeast(normalized, results[n], 50)

\* `any(SequenceMatcher(None, normalized, existing).ratio() >= 0.88 ...)`
SimilarToKept(normalized, results) ==
    \E n \in 1..Len(results) : RatioAtLeast(normalized, results[n], SIMILARITY_PCT)

-----------------------------------------------------------------------------
(* _dedupe_lines *)

RECURSIVE DedupeFrom(_, _, _)
DedupeFrom(lines, i, results) ==
    IF i > Len(lines) THEN results
    ELSE LET normalized == _normalize_text(lines[i])
             seen == {results[n] : n \in 1..Len(results)}
         IN  IF normalized = <<>> THEN DedupeFrom(lines, i + 1, results)
             ELSE IF normalized \in seen THEN DedupeFrom(lines, i + 1, results)
             ELSE IF SimilarToKept(normalized, results)
                  THEN DedupeFrom(lines, i + 1, results)
             ELSE DedupeFrom(lines, i + 1, Append(results, normalized))

_dedupe_lines(lines) == DedupeFrom(lines, 1, <<>>)

-----------------------------------------------------------------------------
(* Inputs of the text pipeline: subtitle lines as OCR returns them, a      *)
(* vocabulary of utterances with whitespace noise around and inside them.  *)

Jamak == <<"ja", "mak", "ip", "ni", "da">>
JamakSpaced == <<"ja", "mak", " ", "ip", "ni", "da">>
WordA == <<"a", "a", "a", "a", "a", "b", "a", "a">>
WordB == <<"a", "a", "b", "a", "a", "a", "b", "a", "b", "a">>
Vocabulary == {Jamak, JamakSpaced, WordA, WordB}

RECURSIVE Rep(_, _)
Rep(ch, n) == IF n <= 0 THEN <<>> ELSE <<ch>> \o Rep(ch, n - 1)

\* every blank of the word widened by k tabs
RECURSIVE Widen(_, _)
Widen(word, k) ==
    IF word = <<>> THEN <<>>
    ELSE (IF Head(word) = " " THEN <<" ">> \o Rep("\t", k) ELSE <<Head(word)>>)
         \o Widen(Tail(word), k)

RawLines ==
    {Rep(" ", k) \o Widen(word, k) \o Rep("\t", k) :
        k \in 0..MaxPad, word \in Vocabulary}
    \cup {Rep(" ", k) : k \in 0..MaxPad}

DedupeInputs == UNION {[1..n -> RawLines] : n \in 0..MaxLines}

-----------------------------------------------------------------------------
(* _line_char_ratios and _filter_subtitle_lines.  A ratio count/total is   *)
(* compared with a threshold t/100 as 100 * count against t * total.       *)

CountIn(line, S) == Cardinality({n \in 1..Len(line) : line[n] \in S})

_line_char_ratios(line) ==
    IF Len(line) = 0
    THEN [total |-> 1, kor |-> 0, latin_num |-> 0, special |-> 1]
    ELSE
    [total |-> Len(line),
     kor |-> CountIn(line, Hangul),
     latin_num |-> CountIn(line, AsciiAlnum),
     special |-> Cardinality({n \in 1..Len(line) :
                    line[n] \notin Whitespace \cup Hangul \cup AsciiAlnum})]

\* a variant that keeps the default Hangul minimum in Korean-only mode
Thresholds_KoreanLoose(korean_only, include_english) ==
    IF korean_only THEN [min_kor |-> 30, max_latin_num |-> 35, max_special |-> 35]
    ELSE IF include_english
         THEN [min_kor |-> 20, max_latin_num |-> 75, max_special |-> 45]
         ELSE [min_kor |-> 30, max_latin_num |-> 55, max_special |-> 45]

Thresholds(korean_only, include_english) ==
    IF korean_only THEN [min_kor |-> 45, max_latin_num |-> 35, max_special |-> 35]
    ELSE IF include_english
         THEN [min_kor |-> 20, max_latin_num |-> 75, max_special |-> 45]
         ELSE [min_kor |-> 30, max_latin_num |-> 55, max_special |-> 45]

AcceptLine(line, korean_only, include_english) ==
    LET r == _line_char_ratios(line)
        t == Thresholds(korean_only, include_english)
    IN  /\ Len(line) > 3
        /\ ~(100 * r.kor < t.min_kor * r.total)
        /\ ~(100 * r.latin_num > t.max_latin_num * r.total)
        /\ ~(100 * r.special > t.max_special * r.total)

RECURSIVE _filter_subtitle_lines(_, _, _)
_filter_subtitle_lines(raw_lines, korean_only, include_english) ==
    IF raw_lines = <<>> THEN <<>>
    ELSE LET line == _normalize_text(Head(raw_lines))
             rest == _filter_subtitle_lines(Tail(raw_lines), korean_only,
                                            include_english)
         IN  IF AcceptLine(line, korean_only, include_english)
             THEN <<line>> \o rest
             ELSE rest

-----------------------------------------------------------------------------
(* Values *)

None == "None"

\* `None` where the other values are records or numbers: the ROI that
\* stands for "no ROI" (an attached ROI has w > 0 and h > 0), the absent
\* timestamp, and the result file that does not exist.
NoRoi == [x |-> 0, y |-> 0, w |-> 0, h |-> 0]
NoTimestamp == <<>>
NoFile == [exists |-> FALSE, lines |-> <<>>]
File(lines) == [exists |-> TRUE, lines |-> lines]

OCR_INTERVAL_SECONDS == 2
OCR_MAX_SECONDS_DEFAULT == 60

MsgDragRoi == "set_roi: drag to select the ROI"
MsgNoRoi == "worker: the ROI is not set"
MsgCannotOpen == "worker: the video file cannot be opened"
MsgException == "worker: str(exc)"

\* A form field as the request carries it: absent, empty, an integer
\* literal, a decimal literal (in tenths), "inf", or other text.
FormAbsent == [kind |-> "absent"]
FormEmpty == [kind |-> "empty"]
FormText == [kind |-> "text"]
FormInf == [kind |-> "inf"]
FormInt(n) == [kind |-> "int", n |-> n]
FormDec(tenths) == [kind |-> "dec", tenths |-> tenths]
FormOn == [kind |-> "on"]

\* int(x) of a float: truncation toward zero
TruncTenths(t) == IF t >= 0 THEN t \div 10 ELSE -((-t) \div 10)

\* set_roi's _to_int_or_zero: 0 for None, "" and unparsable text, else
\* int(float(value)).  int(float("inf")) raises OverflowError, which the
\* handler does not catch: ToIntRaises; the value is then never used.
ToIntRaises(value) == value.kind = "inf"

_to_int_or_zero(value) ==
    CASE value.kind = "int" -> value.n
      [] value.kind = "dec" -> TruncTenths(value.tenths)
      [] OTHER -> 0

\* select_frame's float(request.form.get("timestamp", 0)): ValueError on
\* empty or unparsable text; the value is then never used.
FloatRaises(value) == value.kind \in {"empty", "text"}

FloatOf(value) ==
    CASE value.kind = "int" -> value.n
      [] OTHER -> 0

\* start_ocr's parsing of psm_mode: int(psm_mode), 6 on ValueError, and 6
\* when the value is neither 6 nor 7.
ParsePsm(value) ==
    LET parsed == CASE value.kind = "absent" -> 6
                    [] value.kind = "int" -> value.n
                    [] OTHER -> 6
    IN  IF parsed \in {6, 7} THEN parsed ELSE 6

-----------------------------------------------------------------------------
(* The frame source: an uploaded file either opens or not; an open video   *)
(* has a duration in whole seconds (0 when the frame rate is unreadable)   *)
(* and 8 x 8 frames.  Whether a read at a timestamp succeeds is decided by *)
(* the library at each call.                                               *)

Video(opens, duration) ==
    [opens |-> opens, duration |-> duration, width |-> 8, height |-> 8]

Videos == {Video(FALSE, 0), Video(TRUE, MaxDuration)}
LongVideos == {Video(TRUE, d) : d \in 0..MaxLongDuration}

\* _extract_frame: None when the video does not open or the read fails
_extract_frame(video, read_ok) ==
    IF ~video.opens THEN None
    ELSE IF read_ok THEN "frame" ELSE None

-----------------------------------------------------------------------------
(* The job record created by upload *)

NewJob(video) ==
    [video |-> video,
     selected_timestamp |-> NoTimestamp,
     selected_frame |-> None,
     roi |-> NoRoi,
     status |-> "uploaded",
     result_text |-> <<>>,
     result_file |-> None,
     cancel_requested |-> FALSE,
     limit_to_60 |-> TRUE,
     progress_current |-> 0,
     progress_total |-> 0,
     error |-> "",
     psm_mode |-> 6,
     korean_only |-> FALSE,
     include_english |-> FALSE,
     raw_line_count |-> 0,
     cleaned_line_count |-> 0]

IdleWorker ==
    [pc |-> "idle", job_id |-> 0, roi |-> NoRoi, samples |-> <<>>, idx |-> 0,
     raw_count |-> 0, lines |-> <<>>, result |-> <<>>,
     attempted |-> <<>>, lang |-> None, psm |-> 0, limit |-> FALSE,
     flag |-> FALSE, korean |-> FALSE]

NoRec == [kind |-> "none"]
Arg(nums, text, rec) == [nums |-> nums, text |-> text, rec |-> rec]
NoArg == Arg(<<>>, "", NoRec)
Op(name, job, ok, arg) == [op |-> name, job |-> job, ok |-> ok, arg |-> arg]

RequestIds == 1..(MaxJobs + 1)

-----------------------------------------------------------------------------
(* Request handlers.  Each is one step; `job = JOBS.get(job_id)` followed  *)
(* by `if not job: return` is the guard Known(job_id).                     *)

Known(job_id) == job_id \in DOMAIN JOBS

\* upload (app.py:339-374): no file in the request is a redirect; else a
\* fresh job id is drawn and the job record stored.
Upload(has_file, video) ==
    /\ Cardinality(DOMAIN JOBS) < MaxJobs
    /\ LET job_id == Cardinality(DOMAIN JOBS) + 1
       IN  IF ~has_file
           THEN /\ UNCHANGED <<JOBS, disk>>
                /\ lastOp' = Op("upload", 0, FALSE, Arg(<<>>, "", video))
           ELSE /\ JOBS' = [j \in DOMAIN JOBS \cup {job_id} |->
                               IF j = job_id THEN NewJob(video) ELSE JOBS[j]]
                /\ disk' = [j \in DOMAIN JOBS \cup {job_id} |->
                               IF j = job_id THEN NoFile ELSE disk[j]]
                /\ lastOp' = Op("upload", job_id, TRUE, Arg(<<>>, "", video))
    /\ UNCHANGED <<workers, ddVars, lockVars, fnVars>>

\* a variant that keeps the attached ROI
SelectFrameJob_KeepsRoi(job, timestamp) ==
    [job EXCEPT !.selected_timestamp = <<timestamp>>,
                !.selected_frame = "selected_frame.jpg",
                !.status = "frame_selected",
                !.error = ""]

\* the fields select_frame writes on a successful decode (app.py:393-397)
SelectFrameJob(job, timestamp) ==
    [job EXCEPT !.selected_timestamp = <<timestamp>>,
                !.selected_frame = "selected_frame.jpg",
                !.roi = NoRoi,
                !.status = "frame_selected",
                !.error = ""]

\* select_frame (app.py:377-399); float(timestamp) raising ValueError on
\* text ends the request before the job is touched.
SelectFrame(job_id, timestamp, read_ok) ==
    /\ IF ~Known(job_id)
       THEN /\ UNCHANGED JOBS
            /\ lastOp' = Op("select_frame", job_id, FALSE, NoArg)
       ELSE LET frame == IF FloatRaises(timestamp) THEN None
                         ELSE _extract_frame(JOBS[job_id].video, read_ok)
            IN  /\ JOBS' = IF frame = None THEN JOBS
                           ELSE [JOBS EXCEPT ![job_id] =
                                    SelectFrameJob(@, FloatOf(timestamp))]
                /\ lastOp' = Op("select_frame", job_id, frame # None,
                                Arg(<<FloatOf(timestamp)>>, "", NoRec))
    /\ UNCHANGED <<disk, workers, ddVars, lockVars, fnVars>>

\* a variant that rejects the ROI only when both sides are non-positive
SetRoiJob_BothSides(job, x, y, w, h) ==
    IF w <= 0 /\ h <= 0
    THEN [job EXCEPT !.error = MsgDragRoi]
    ELSE [job EXCEPT !.roi = [x |-> x, y |-> y, w |-> w, h |-> h],
                     !.status = "roi_set",
                     !.error = ""]

\* the fields set_roi writes (app.py:422-428)
SetRoiJob(job, x, y, w, h) ==
    IF w <= 0 \/ h <= 0
    THEN [job EXCEPT !.error = MsgDragRoi]
    ELSE [job EXCEPT !.roi = [x |-> x, y |-> y, w |-> w, h |-> h],
                     !.status = "roi_set",
                     !.error = ""]

\* set_roi (app.py:402-429); an OverflowError of _to_int_or_zero ends the
\* request before the job is touched.
SetRoi(job_id, fx, fy, fw, fh) ==
    LET x == _to_int_or_zero(fx)
        y == _to_int_or_zero(fy)
        w == _to_int_or_zero(fw)
        h == _to_int_or_zero(fh)
        raised == ToIntRaises(fx) \/ ToIntRaises(fy) \/ ToIntRaises(fw)
                  \/ ToIntRaises(fh)
    IN  /\ IF ~Known(job_id) \/ raised
           THEN /\ UNCHANGED JOBS
                /\ lastOp' = Op("set_roi", job_id, FALSE, NoArg)
           ELSE /\ JOBS' = [JOBS EXCEPT ![job_id] = SetRoiJob(@, x, y, w, h)]
                /\ lastOp' = Op("set_roi", job_id, w > 0 /\ h > 0,
                                Arg(<<x, y, w, h>>, "", NoRec))
        /\ UNCHANGED <<disk, workers, ddVars, lockVars, fnVars>>

\* the fields start_ocr writes (app.py:439-453)
StartOcrJob(job, form) ==
    [job EXCEPT !.cancel_requested = FALSE,
                !.limit_to_60 = (form.limit_to_60 = FormOn),
                !.psm_mode = ParsePsm(form.psm_mode),
                !.korean_only = (form.korean_only = FormOn),
                !.include_english = (form.include_english = FormOn),
                !.progress_current = 0,
                !.progress_total = 0,
                !.raw_line_count = 0,
                !.cleaned_line_count = 0,
                !.error = ""]

\* threading.Thread(target=_ocr_worker, args=(job_id,)).start()
SpawnWorker(w, job_id) ==
    workers' = [workers EXCEPT ![w] = [IdleWorker EXCEPT !.pc = "start",
                                                         !.job_id = job_id]]

FreeSlots == {w \in DOMAIN workers : workers[w].pc = "idle"}
Running == DOMAIN workers \ FreeSlots

\* a variant that starts the worker before it looks the job up
StartOcr_SpawnsFirst(job_id, form) ==
    /\ FreeSlots # {}
    /\ SpawnWorker(CHOOSE w \in FreeSlots : \A v \in FreeSlots : w <= v, job_id)
    /\ IF ~Known(job_id)
       THEN /\ UNCHANGED JOBS
            /\ lastOp' = Op("start_ocr", job_id, FALSE, NoArg)
       ELSE /\ JOBS' = [JOBS EXCEPT ![job_id] = StartOcrJob(@, form)]
            /\ lastOp' = Op("start_ocr", job_id, TRUE, Arg(<<>>, "", form))
    /\ UNCHANGED <<disk, ddVars, lockVars, fnVars>>

\* start_ocr (app.py:432-456)
StartOcr(job_id, form) ==
    /\ IF ~Known(job_id)
       THEN /\ UNCHANGED <<JOBS, workers>>
            /\ lastOp' = Op("start_ocr", job_id, FALSE, NoArg)
       ELSE /\ FreeSlots # {}
            /\ JOBS' = [JOBS EXCEPT ![job_id] = StartOcrJob(@, form)]
            /\ SpawnWorker(CHOOSE w \in FreeSlots : \A v \in FreeSlots : w <= v,
                           job_id)
            /\ lastOp' = Op("start_ocr", job_id, TRUE, Arg(<<>>, "", form))
    /\ UNCHANGED <<disk, ddVars, lockVars, fnVars>>

\* a variant that reverts the status without requesting cancellation
ResetRoiJob_NoCancel(job) ==
    [job EXCEPT !.roi = NoRoi,
                !.status = IF job.selected_frame # None
                           THEN "frame_selected" ELSE "uploaded",
                !.error = ""]

\* the fields reset_roi writes (app.py:466-469)
ResetRoiJob(job) ==
    [job EXCEPT !.cancel_requested = TRUE,
                !.roi = NoRoi,
                !.status = IF job.selected_frame # None
                           THEN "frame_selected" ELSE "uploaded",
                !.error = ""]

\* reset_roi (app.py:459-470)
ResetRoi(job_id) ==
    /\ IF ~Known(job_id)
       THEN /\ UNCHANGED JOBS
            /\ lastOp' = Op("reset_roi", job_id, FALSE, NoArg)
       ELSE /\ JOBS' = [JOBS EXCEPT ![job_id] = ResetRoiJob(@)]
            /\ lastOp' = Op("reset_roi", job_id, TRUE,
                           Arg(<<>>, JOBS[job_id].status, NoRec))
    /\ UNCHANGED <<disk, workers, ddVars, lockVars, fnVars>>

\* download (app.py:473-478): the file is sent when the job is known and
\* has a result_file; nothing is written.
Download(job_id) ==
    /\ lastOp' = IF Known(job_id) /\ JOBS[job_id].result_file # None
                 THEN Op("download", job_id, TRUE, Arg(<<>>, "", disk[job_id]))
                 ELSE Op("download", job_id, FALSE, Arg(<<>>, "", NoFile))
    /\ UNCHANGED <<JOBS, disk, workers, ddVars, lockVars, fnVars>>

-----------------------------------------------------------------------------
(* _ocr_worker (app.py:200-324).  Each step is one block under JOBS_LOCK,  *)
(* or one stretch outside the lock with at most one access to the job      *)
(* record the handlers write.  `job` is the record itself (the dict is     *)
(* shared by reference), so every job.get(...) reads the current value.    *)

Job(w) == JOBS[workers[w].job_id]

\* the thread ends (return, or the end of the function): its locals are
\* gone and its slot is free again
Finish(wk) == IdleWorker

\* list(range(0, max(duration, 1) + 1, OCR_INTERVAL_SECONDS)), [0] if empty
RECURSIVE RangeFrom(_, _, _)
RangeFrom(start, stop, step) ==
    IF start >= stop THEN <<>>
    ELSE <<start>> \o RangeFrom(start + step, stop, step)

\* a variant whose range stops one short: range(0, max(duration, 1), 2)
SampleSeconds_StopsShort(duration) ==
    LET r == RangeFrom(0, Max2(duration, 1), OCR_INTERVAL_SECONDS)
    IN  IF r = <<>> THEN <<0>> ELSE r

SampleSeconds(duration) ==
    LET r == RangeFrom(0, Max2(duration, 1) + 1, OCR_INTERVAL_SECONDS)
    IN  IF r = <<>> THEN <<0>> ELSE r

\* app.py:226-230
CappedDuration(video, limit_to_60) ==
    IF limit_to_60 THEN Min2(video.duration, OCR_MAX_SECONDS_DEFAULT)
    ELSE video.duration

\* app.py:203-209
WorkerBegin(w) ==
    /\ workers[w].pc = "start"
    /\ IF ~Known(workers[w].job_id)
       THEN /\ workers' = [workers EXCEPT ![w] = Finish(@)]
            /\ UNCHANGED JOBS
       ELSE /\ JOBS' = [JOBS EXCEPT ![workers[w].job_id] =
                           [@ EXCEPT !.status = "processing",
                                     !.result_text = <<>>,
                                     !.error = ""]]
            /\ workers' = [workers EXCEPT ![w] = [@ EXCEPT !.pc = "read_roi"]]
    /\ lastOp' = Op("worker", workers[w].job_id, TRUE, NoArg)
    /\ UNCHANGED <<disk, ddVars, lockVars, fnVars>>

\* app.py:211-213: roi = job.get("roi"), read outside the lock
WorkerReadRoi(w) ==
    /\ workers[w].pc = "read_roi"
    /\ workers' = [workers EXCEPT ![w] =
                      [@ EXCEPT !.roi = Job(w).roi,
                                !.pc = IF Job(w).roi = NoRoi
                                       THEN "no_roi" ELSE "open"]]
    /\ lastOp' = Op("worker", workers[w].job_id, TRUE, NoArg)
    /\ UNCHANGED <<JOBS, disk, ddVars, lockVars, fnVars>>

\* a variant that records the message and leaves the status
FailJob_KeepsStatus(job, msg) == [job EXCEPT !.error = msg]

\* the status and error a worker writes on a failure
FailJob(job, msg) == [job EXCEPT !.status = "error", !.error = msg]

\* app.py:214-217
WorkerNoRoi(w) ==
    /\ workers[w].pc = "no_roi"
    /\ JOBS' = [JOBS EXCEPT ![workers[w].job_id] = FailJob(@, MsgNoRoi)]
    /\ workers' = [workers EXCEPT ![w] = Finish(@)]
    /\ lastOp' = Op("worker", workers[w].job_id, TRUE, NoArg)
    /\ UNCHANGED <<disk, ddVars, lockVars, fnVars>>

\* app.py:219-235: the video is opened; a video that does not open fails
\* the job (221-224); else the sample list is planned from the duration
\* and job.get("limit_to_60"), read outside the lock.
WorkerOpen(w) ==
    /\ workers[w].pc = "open"
    /\ IF ~Job(w).video.opens
       THEN /\ JOBS' = [JOBS EXCEPT ![workers[w].job_id] =
                           FailJob(@, MsgCannotOpen)]
            /\ workers' = [workers EXCEPT ![w] =
                              Finish(@)]
       ELSE /\ UNCHANGED JOBS
            /\ workers' = [workers EXCEPT ![w] =
                  [@ EXCEPT !.limit = Job(w).limit_to_60,
                            !.samples = SampleSeconds(
                                CappedDuration(Job(w).video, Job(w).limit_to_60)),
                            !.pc = "set_total"]]
    /\ lastOp' = Op("worker", workers[w].job_id, TRUE, NoArg)
    /\ UNCHANGED <<disk, ddVars, lockVars, fnVars>>

\* app.py:237-243
WorkerSetTotal(w) ==
    /\ workers[w].pc = "set_total"
    /\ JOBS' = [JOBS EXCEPT ![workers[w].job_id] =
                   [@ EXCEPT !.progress_current = 0,
                             !.progress_total = Len(workers[w].samples)]]
    /\ workers' = [workers EXCEPT ![w] = [@ EXCEPT !.idx = 1, !.pc = "poll"]]
    /\ lastOp' = Op("worker", workers[w].job_id, TRUE, NoArg)
    /\ UNCHANGED <<disk, ddVars, lockVars, fnVars>>

\* app.py:245-254: the top of a sample iteration, under the lock
WorkerPoll(w) ==
    /\ workers[w].pc = "poll"
    /\ IF ~Known(workers[w].job_id)
       THEN /\ workers' = [workers EXCEPT ![w] = Finish(@)]
            /\ UNCHANGED JOBS
       ELSE IF Job(w).cancel_requested
       THEN /\ JOBS' = [JOBS EXCEPT ![workers[w].job_id] =
                           [@ EXCEPT !.status = "cancelled"]]
            /\ workers' = [workers EXCEPT ![w] =
                              Finish(@)]
       ELSE /\ JOBS' = [JOBS EXCEPT ![workers[w].job_id] =
                           [@ EXCEPT !.progress_current = workers[w].idx]]
            /\ workers' = [workers EXCEPT ![w] =
                  [@ EXCEPT !.pc = "sample",
                            !.attempted = Append(@, workers[w].samples[workers[w].idx])]]
    /\ lastOp' = Op("worker", workers[w].job_id, TRUE, NoArg)
    /\ UNCHANGED <<disk, ddVars, lockVars, fnVars>>

\* the end of a loop body (`continue` or falling through): the next sample,
\* or the code after the loop when the list is exhausted
Advance(wk) ==
    [wk EXCEPT !.idx = wk.idx + 1,
               !.pc = IF wk.idx >= Len(wk.samples) THEN "write_file" ELSE "poll"]

\* app.py:262-267: the ROI clipped to the frame is empty
RoiOutsideFrame(roi, video) ==
    LET x2 == Min2(roi.x + roi.w, video.width)
        y2 == Min2(roi.y + roi.h, video.height)
        x1 == Max2(0, roi.x)
        y1 == Max2(0, roi.y)
    IN  x2 <= x1 \/ y2 <= y1

\* What a sample's frame source and OCR engine calls can do: the read
\* fails, a call raises, or the OCR returns a text (as text.splitlines()).
NoiseLine == <<"a", "b", "!", "!">>
MixedLine == <<"ja", "mak", "a", "b", "a">>
OcrTexts == {<<<<" ">>, <<" ">> \o JamakSpaced, NoiseLine, MixedLine, Jamak>>}

ReadFails == [kind |-> "read_fail", text |-> <<>>]
Raises == [kind |-> "raise", text |-> <<>>]
Recognized(text) == [kind |-> "text", text |-> text]
SampleOutcomes == {ReadFails, Raises} \cup {Recognized(t) : t \in OcrTexts}

\* [ln for ln in text.splitlines() if ln and ln.strip()]
FrameLines(text) == SelectSeq(text, LAMBDA ln : ln # <<>> /\ Strip(ln) # <<>>)

\* app.py:284-299: what one recognized text adds to the worker's raw_lines
\* and lines, under the job's configuration as it is when the sample runs
Accumulate(wk, job, text) ==
    LET frame_lines == FrameLines(text)
        raw == SelectSeq(frame_lines, LAMBDA ln : _normalize_text(ln) # <<>>)
        filtered_lines == _filter_subtitle_lines(frame_lines, job.korean_only,
                                                 job.include_english)
    IN  [wk EXCEPT !.raw_count = @ + Len(raw),
                   !.lines = @ \o filtered_lines,
                   !.psm = IF job.psm_mode \in {6, 7} THEN job.psm_mode ELSE 6,
                   !.korean = job.korean_only,
                   !.lang = IF job.include_english THEN "kor+eng" ELSE "kor"]

\* a variant of the sample body in which a failed frame read ends the run
\* through the exception handler instead of skipping the sample
WorkerSample_ReadFailAborts(w, outcome) ==
    /\ workers[w].pc = "sample"
    /\ workers' = [workers EXCEPT ![w] =
          IF outcome.kind = "read_fail" THEN [@ EXCEPT !.pc = "except"]
          ELSE IF RoiOutsideFrame(workers[w].roi, Job(w).video) THEN Advance(@)
          ELSE IF outcome.kind = "raise" THEN [@ EXCEPT !.pc = "except"]
          ELSE Advance(Accumulate(@, Job(w), outcome.text))]
    /\ lastOp' = Op("worker", workers[w].job_id, TRUE,
                    Arg(<<>>, outcome.kind, NoRec))
    /\ UNCHANGED <<JOBS, disk, ddVars, lockVars, fnVars>>

\* app.py:256-299, the body of a sample iteration outside the lock: seek,
\* read, crop, segment, the OCR call and the line filter, with
\* job.get("psm_mode"), job.get("include_english") and
\* job.get("korean_only") read from the job as it is then
WorkerSample(w, outcome) ==
    /\ workers[w].pc = "sample"
    /\ workers' = [workers EXCEPT ![w] =
          IF outcome.kind = "read_fail" THEN Advance(@)
          ELSE IF RoiOutsideFrame(workers[w].roi, Job(w).video) THEN Advance(@)
          ELSE IF outcome.kind = "raise" THEN [@ EXCEPT !.pc = "except"]
          ELSE Advance(Accumulate(@, Job(w), outcome.text))]
    /\ lastOp' = Op("worker", workers[w].job_id, TRUE,
                    Arg(<<>>, outcome.kind, NoRec))
    /\ UNCHANGED <<JOBS, disk, ddVars, lockVars, fnVars>>

\* app.py:301-307: the result file is written, or the write raises.  The
\* text "\n".join(deduped) is kept as the sequence of its lines.
WorkerWriteFile(w, io_ok) ==
    /\ workers[w].pc = "write_file"
    /\ LET deduped == _dedupe_lines(workers[w].lines)
       IN  IF io_ok
           THEN /\ disk' = [disk EXCEPT ![workers[w].job_id] = File(deduped)]
                /\ workers' = [workers EXCEPT ![w] =
                                  [@ EXCEPT !.result = deduped, !.pc = "publish"]]
           ELSE /\ UNCHANGED disk
                /\ workers' = [workers EXCEPT ![w] = [@ EXCEPT !.pc = "except"]]
    /\ lastOp' = Op("worker", workers[w].job_id, TRUE, NoArg)
    /\ UNCHANGED <<JOBS, ddVars, lockVars, fnVars>>

\* app.py:309-314
WorkerPublish(w) ==
    /\ workers[w].pc = "publish"
    /\ JOBS' = [JOBS EXCEPT ![workers[w].job_id] =
                   [@ EXCEPT !.status = "done",
                             !.result_text = workers[w].result,
                             !.result_file = "result.txt",
                             !.raw_line_count = workers[w].raw_count,
                             !.cleaned_line_count = Len(workers[w].result)]]
    /\ workers' = [workers EXCEPT ![w] = Finish(@)]
    /\ lastOp' = Op("worker", workers[w].job_id, TRUE, NoArg)
    /\ UNCHANGED <<disk, ddVars, lockVars, fnVars>>

\* app.py:315-321: the handler of an exception raised in the run
WorkerExcept(w) ==
    /\ workers[w].pc = "except"
    /\ IF Known(workers[w].job_id)
       THEN /\ JOBS' = [JOBS EXCEPT ![workers[w].job_id] =
                           FailJob(@, MsgException)]
            /\ workers' = [workers EXCEPT ![w] =
                              Finish(@)]
       ELSE /\ UNCHANGED JOBS
            /\ workers' = [workers EXCEPT ![w] = Finish(@)]
    /\ lastOp' = Op("worker", workers[w].job_id, TRUE, NoArg)
    /\ UNCHANGED <<disk, ddVars, lockVars, fnVars>>

WorkerStep(w) ==
    \/ WorkerBegin(w)
    \/ WorkerReadRoi(w)
    \/ WorkerNoRoi(w)
    \/ WorkerOpen(w)
    \/ WorkerSetTotal(w)
    \/ WorkerPoll(w)
    \/ \E outcome \in SampleOutcomes : WorkerSample(w, outcome)
    \/ \E io_ok \in BOOLEAN : WorkerWriteFile(w, io_ok)
    \/ WorkerPublish(w)
    \/ WorkerExcept(w)

-----------------------------------------------------------------------------
(* The requests the model issues *)

TimestampInputs == {FormInt(5), FormText}
RoiForms ==
    {<<FormEmpty, FormEmpty, FormInt(4), FormDec(45)>>,
     <<FormInt(0), FormInt(0), FormInt(0), FormInt(4)>>,
     <<FormInt(0), FormInt(0), FormInt(4), FormDec(-15)>>,
     <<FormInt(0), FormInt(0), FormText, FormAbsent>>,
     <<FormInt(0), FormInt(0), FormInf, FormInt(4)>>}
StartForms ==
    {[limit_to_60 |-> FormOn, psm_mode |-> FormAbsent,
      korean_only |-> FormAbsent, include_english |-> FormAbsent],
     [limit_to_60 |-> FormAbsent, psm_mode |-> FormInt(7),
      korean_only |-> FormOn, include_english |-> FormAbsent],
     [limit_to_60 |-> FormOn, psm_mode |-> FormInt(3),
      korean_only |-> FormAbsent, include_english |-> FormOn]}

Request ==
    \/ \E has_file \in BOOLEAN, video \in Videos : Upload(has_file, video)
    \/ \E j \in RequestIds, t \in TimestampInputs, read_ok \in BOOLEAN :
          SelectFrame(j, t, read_ok)
    \/ \E j \in RequestIds, f \in RoiForms : SetRoi(j, f[1], f[2], f[3], f[4])
    \/ \E j \in RequestIds, form \in StartForms : StartOcr(j, form)
    \/ \E j \in RequestIds : ResetRoi(j)
    \/ \E j \in RequestIds : Download(j)

\* the configuration start_ocr writes into the job (app.py:440-448)
Config(job) ==
    [limit_to_60 |-> job.limit_to_60, psm_mode |-> job.psm_mode,
     korean_only |-> job.korean_only, include_english |-> job.include_english]
NoConfig ==
    [limit_to_60 |-> FALSE, psm_mode |-> 0,
     korean_only |-> FALSE, include_english |-> FALSE]

\* History of the runs.  For a job: `open`, a start has been accepted and
\* no worker has written done, error or cancelled since; `last`, the
\* timestamp of the sample taken up last since then (-1 when none).  For a
\* worker thread: `cfg`, the configuration the job held when the start that
\* spawned the thread returned; `solo`, the thread has been the only
\* worker of its job: none was running when it was spawned and no other
\* start has been accepted for the job since.
InitHist(slots) ==
    [open |-> [j \in 1..MaxJobs |-> FALSE],
     last |-> [j \in 1..MaxJobs |-> -1],
     cfg |-> [w \in 1..slots |-> NoConfig],
     solo |-> [w \in 1..slots |-> TRUE]]

Started(j) == lastOp'.op = "start_ocr" /\ lastOp'.ok /\ lastOp'.job = j
Spawned(w) == workers[w].pc = "idle" /\ workers'[w].pc = "start"
WroteTerminal(j) ==
    /\ lastOp'.op = "worker" /\ lastOp'.job = j /\ j \in DOMAIN JOBS
    /\ \E w \in DOMAIN workers :
          /\ workers[w].pc # "idle" /\ workers'[w].pc = "idle"
          /\ workers[w].job_id = j
    /\ JOBS'[j].status \in {"done", "error", "cancelled"}
TookUp(w) == workers[w].pc \in {"poll", "poll_put"} /\ workers'[w].pc = "sample"

Track ==
    hist' =
      [open |-> [j \in 1..MaxJobs |->
                   IF Started(j) THEN TRUE
                   ELSE IF WroteTerminal(j) THEN FALSE
                   ELSE hist.open[j]],
       last |-> [j \in 1..MaxJobs |->
                   IF Started(j) \/ WroteTerminal(j) THEN -1
                   ELSE IF \E w \in DOMAIN workers :
                              TookUp(w) /\ workers[w].job_id = j
                   THEN LET w == CHOOSE w \in DOMAIN workers :
                                    TookUp(w) /\ workers[w].job_id = j
                        IN  workers[w].samples[workers[w].idx]
                   ELSE hist.last[j]],
       cfg |-> [w \in DOMAIN workers |->
                   IF Spawned(w) /\ workers'[w].job_id \in DOMAIN JOBS'
                   THEN Config(JOBS'[workers'[w].job_id])
                   ELSE IF Spawned(w) \/ workers'[w].pc = "idle" THEN NoConfig
                   ELSE hist.cfg[w]],
       solo |-> [w \in DOMAIN workers |->
                   IF Spawned(w)
                   THEN \A v \in DOMAIN workers \ {w} :
                           \/ workers[v].pc = "idle"
                           \/ workers[v].job_id # workers'[w].job_id
                   ELSE IF workers'[w].pc = "idle" THEN TRUE
                   ELSE hist.solo[w] /\ ~Started(workers[w].job_id)]]

IdleHandler == [pc |-> "idle", job_id |-> 0]
Free == [holder |-> "none", slot |-> 0]
HeldByWorker(w) == [holder |-> "worker", slot |-> w]
HeldByHandler == [holder |-> "handler", slot |-> 0]

InitLock ==
    /\ lock = Free
    /\ handler = IdleHandler

InitJobs ==
    /\ JOBS = <<>>
    /\ disk = <<>>
    /\ workers = [w \in 1..MaxWorkers |-> IdleWorker]
    /\ lastOp = Op("init", 0, TRUE, NoArg)
    /\ hist = InitHist(MaxWorkers)
    /\ InitLock

InitDedupeIdle ==
    /\ dd_lines = <<>>
    /\ dd_out = <<>>
    /\ dd_pc = "idle"

InitFnIdle ==
    /\ fn_in = NoRec
    /\ fn_out = <<>>
    /\ fn_pc = "idle"

Init == InitJobs /\ InitDedupeIdle /\ InitFnIdle

Next ==
    \/ Request /\ Track
    \/ \E w \in DOMAIN workers : WorkerStep(w) /\ Track

Spec == Init /\ [][Next]_vars

\* every call of the frame source and of the OCR engine returns, and the
\* scheduler runs every thread that can take a step
Fairness == \A w \in 1..MaxWorkers : WF_vars(WorkerStep(w) /\ Track)

FairSpec == Spec /\ Fairness

-----------------------------------------------------------------------------
(* The sampling plan on long videos: one job, a valid ROI, runs started    *)
(* with and without the 60-second cap; every read fails or the OCR raises, *)
(* so that a run is decided by its sample list alone.                      *)

NextSampling ==
    \/ (\E video \in LongVideos : Upload(TRUE, video)) /\ Track
    \/ SetRoi(1, FormInt(0), FormInt(0), FormInt(4), FormInt(4)) /\ Track
    \/ (\E form \in StartForms : StartOcr(1, form)) /\ Track
    \/ \E w \in DOMAIN workers :
          /\ \/ WorkerBegin(w)
             \/ WorkerReadRoi(w)
             \/ WorkerNoRoi(w)
             \/ WorkerOpen(w)
             \/ WorkerSetTotal(w)
             \/ WorkerPoll(w)
             \/ \E outcome \in {ReadFails, Raises} : WorkerSample(w, outcome)
             \/ WorkerWriteFile(w, TRUE)
             \/ WorkerPublish(w)
             \/ WorkerExcept(w)
          /\ Track

SpecSampling == Init /\ [][NextSampling]_vars

-----------------------------------------------------------------------------
(* _dedupe_lines on every input of up to MaxLines raw lines *)

InitDedupe ==
    /\ InitJobs
    /\ InitFnIdle
    /\ dd_lines \in DedupeInputs
    /\ dd_out = <<>>
    /\ dd_pc = "ready"

DedupeCall ==
    /\ dd_pc = "ready"
    /\ dd_out' = _dedupe_lines(dd_lines)
    /\ dd_pc' = "done"
    /\ UNCHANGED <<dd_lines, jobVars, hist, lockVars, fnVars>>

SpecDedupe == InitDedupe /\ [][DedupeCall]_vars

-----------------------------------------------------------------------------
(* Runs that overlap: one job with a valid ROI and MaxRaceWorkers thread   *)
(* slots, so that start_ocr can be accepted again while an earlier worker  *)
(* of the job has not finished.                                            *)

InitRace ==
    /\ JOBS = <<>>
    /\ disk = <<>>
    /\ workers = [w \in 1..MaxRaceWorkers |-> IdleWorker]
    /\ lastOp = Op("init", 0, TRUE, NoArg)
    /\ hist = InitHist(MaxRaceWorkers)
    /\ InitLock
    /\ InitDedupeIdle
    /\ InitFnIdle

\* a line the default thresholds accept and the Korean-only ones reject
RaceLine == <<"ja", "mak", "a", "b", "!">>

\* the default options, and Korean-only with PSM 7 and no cap
RaceForms ==
    {[limit_to_60 |-> FormOn, psm_mode |-> FormAbsent,
      korean_only |-> FormAbsent, include_english |-> FormAbsent],
     [limit_to_60 |-> FormAbsent, psm_mode |-> FormInt(7),
      korean_only |-> FormOn, include_english |-> FormAbsent]}

NextRace ==
    \/ (\E video \in Videos : Upload(TRUE, video)) /\ Track
    \/ SetRoi(1, FormInt(0), FormInt(0), FormInt(4), FormInt(4)) /\ Track
    \/ (\E form \in RaceForms : StartOcr(1, form)) /\ Track
    \/ ResetRoi(1) /\ Track
    \/ \E w \in DOMAIN workers :
          /\ \/ WorkerBegin(w)
             \/ WorkerReadRoi(w)
             \/ WorkerNoRoi(w)
             \/ WorkerOpen(w)
             \/ WorkerSetTotal(w)
             \/ WorkerPoll(w)
             \/ \E outcome \in {ReadFails, Raises, Recognized(<<RaceLine>>)} :
                   WorkerSample(w, outcome)
             \/ WorkerWriteFile(w, TRUE)
             \/ WorkerPublish(w)
             \/ WorkerExcept(w)
          /\ Track

SpecRace == InitRace /\ [][NextRace]_vars

-----------------------------------------------------------------------------
(* JOBS_LOCK.  The worker's block at the top of a sample iteration and the *)
(* reset_roi handler are followed statement by statement: `with JOBS_LOCK` *)
(* acquires the lock when it is free and releases it at the end of the     *)
(* block; reset_roi contains no `with JOBS_LOCK`.  The other blocks of the *)
(* worker run as one step each, when the lock is free.                     *)

\* app.py:246-247: with JOBS_LOCK: current_job = JOBS.get(job_id)
PollAcquire(w) ==
    /\ workers[w].pc = "poll"
    /\ lock = Free
    /\ lock' = HeldByWorker(w)
    /\ workers' = [workers EXCEPT ![w] = [@ EXCEPT !.pc = "poll_get"]]
    /\ lastOp' = Op("worker", workers[w].job_id, TRUE, NoArg)
    /\ UNCHANGED <<JOBS, disk, handler, ddVars, fnVars>>

\* app.py:248-250: the job is looked up and its cancel_requested is read
PollRead(w) ==
    /\ workers[w].pc = "poll_get"
    /\ IF ~Known(workers[w].job_id)
       THEN /\ workers' = [workers EXCEPT ![w] = Finish(@)]
            /\ lock' = Free
       ELSE /\ workers' = [workers EXCEPT ![w] =
                   [@ EXCEPT !.flag = Job(w).cancel_requested,
                             !.pc = "poll_put"]]
            /\ UNCHANGED lock
    /\ lastOp' = Op("worker", workers[w].job_id, TRUE, NoArg)
    /\ UNCHANGED <<JOBS, disk, handler, ddVars, fnVars>>

\* a variant of the end of the poll block that writes `cancelled` and goes
\* on to the sample instead of returning
PollWrite_KeepsGoing(w) ==
    /\ workers[w].pc = "poll_put"
    /\ JOBS' = [JOBS EXCEPT ![workers[w].job_id] =
                   IF workers[w].flag
                   THEN [@ EXCEPT !.status = "cancelled"]
                   ELSE [@ EXCEPT !.progress_current = workers[w].idx]]
    /\ workers' = [workers EXCEPT ![w] =
          [@ EXCEPT !.pc = "sample",
                    !.attempted = Append(@, workers[w].samples[workers[w].idx])]]
    /\ lock' = Free
    /\ lastOp' = Op("worker", workers[w].job_id, TRUE, NoArg)
    /\ UNCHANGED <<disk, handler, ddVars, fnVars>>

\* app.py:250-254: status = "cancelled" and return, or progress_current =
\* idx; the block ends and the lock is released
PollWrite(w) ==
    /\ workers[w].pc = "poll_put"
    /\ IF workers[w].flag
       THEN /\ JOBS' = [JOBS EXCEPT ![workers[w].job_id] =
                           [@ EXCEPT !.status = "cancelled"]]
            /\ workers' = [workers EXCEPT ![w] = Finish(@)]
       ELSE /\ JOBS' = [JOBS EXCEPT ![workers[w].job_id] =
                           [@ EXCEPT !.progress_current = workers[w].idx]]
            /\ workers' = [workers EXCEPT ![w] =
                  [@ EXCEPT !.pc = "sample",
                            !.attempted = Append(@, workers[w].samples[workers[w].idx])]]
    /\ lock' = Free
    /\ lastOp' = Op("worker", workers[w].job_id, TRUE, NoArg)
    /\ UNCHANGED <<disk, handler, ddVars, fnVars>>

\* app.py:461-464: the request thread has looked the job up
ResetEnter(job_id) ==
    /\ handler.pc = "idle"
    /\ Known(job_id)
    /\ handler' = [pc |-> "cancel_requested", job_id |-> job_id]
    /\ lastOp' = Op("reset_roi_step", job_id, TRUE, NoArg)
    /\ UNCHANGED <<JOBS, disk, workers, lock, ddVars, fnVars>>

\* app.py:466-469: the four writes of reset_roi, one per step
ResetWrite ==
    /\ handler.pc # "idle"
    /\ LET j == handler.job_id
           done == ResetRoiJob(JOBS[j])
       IN  \/ /\ handler.pc = "cancel_requested"
              /\ JOBS' = [JOBS EXCEPT ![j].cancel_requested = done.cancel_requested]
              /\ handler' = [handler EXCEPT !.pc = "roi"]
           \/ /\ handler.pc = "roi"
              /\ JOBS' = [JOBS EXCEPT ![j].roi = done.roi]
              /\ handler' = [handler EXCEPT !.pc = "status"]
           \/ /\ handler.pc = "status"
              /\ JOBS' = [JOBS EXCEPT ![j].status = done.status]
              /\ handler' = [handler EXCEPT !.pc = "error"]
           \/ /\ handler.pc = "error"
              /\ JOBS' = [JOBS EXCEPT ![j].error = done.error]
              /\ handler' = IdleHandler
    /\ lastOp' = Op("reset_roi_step", handler.job_id, TRUE, NoArg)
    /\ UNCHANGED <<disk, workers, lock, ddVars, fnVars>>

NextLock ==
    \/ Upload(TRUE, Video(TRUE, MaxDuration)) /\ Track
    \/ SetRoi(1, FormInt(0), FormInt(0), FormInt(4), FormInt(4)) /\ Track
    \/ (\E form \in StartForms : StartOcr(1, form)) /\ Track
    \/ (\E j \in RequestIds : ResetEnter(j)) /\ Track
    \/ ResetWrite /\ Track
    \/ \E w \in DOMAIN workers :
          /\ \/ lock = Free /\ WorkerBegin(w)
             \/ WorkerReadRoi(w)
             \/ lock = Free /\ WorkerNoRoi(w)
             \/ lock = Free /\ WorkerOpen(w)
             \/ lock = Free /\ WorkerSetTotal(w)
             \/ PollAcquire(w)
             \/ PollRead(w)
             \/ PollWrite(w)
             \/ \E outcome \in {ReadFails, Recognized(<<Jamak>>)} :
                   WorkerSample(w, outcome)
             \/ WorkerWriteFile(w, TRUE)
             \/ lock = Free /\ WorkerPublish(w)
             \/ lock = Free /\ WorkerExcept(w)
          /\ Track

SpecLock == Init /\ [][NextLock]_vars

-----------------------------------------------------------------------------
(* _filter_subtitle_lines on one raw line in each mode: every line of up   *)
(* to MaxFilterLen characters, and longer lines whose ratios lie on and    *)
(* next to the thresholds.                                                 *)

FilterChars == {"ja", "a", "!", " "}
Mix(k, l, s) == Rep("ja", k) \o Rep("a", l) \o Rep("!", s)
ThresholdLines ==
    {Mix(3, 5, 2), Mix(2, 5, 3), Mix(6, 11, 3), Mix(6, 12, 2), Mix(6, 5, 9),
     Mix(6, 4, 10), Mix(9, 7, 4), Mix(8, 7, 5), Mix(9, 4, 7), Mix(9, 3, 8),
     <<" ">> \o Mix(1, 3, 0) \o <<"\t", " ">>}
FilterLines ==
    UNION {[1..n -> FilterChars] : n \in 0..MaxFilterLen} \cup ThresholdLines

InitFilter ==
    /\ InitJobs
    /\ InitDedupeIdle
    /\ fn_in \in [line : FilterLines, korean_only : BOOLEAN,
                   include_english : BOOLEAN]
    /\ fn_out = <<>>
    /\ fn_pc = "ready"

FilterCall ==
    /\ fn_pc = "ready"
    /\ fn_out' = _filter_subtitle_lines(<<fn_in.line>>, fn_in.korean_only,
                                        fn_in.include_english)
    /\ fn_pc' = "done"
    /\ UNCHANGED <<fn_in, jobVars, hist, lockVars, ddVars>>

SpecFilter == InitFilter /\ [][FilterCall]_vars

-----------------------------------------------------------------------------
(* _build_thumbnail_list.  The duration is a whole number of seconds (0    *)
(* when the video does not open or its frame rate is unreadable); decodes  *)
(* gives, for each planned timestamp in order, whether _extract_frame      *)
(* returns a frame.                                                        *)

THUMB_TIMESTAMPS == <<0, 5, 10, 20, 30, 40>>

\* _video_duration (app.py:97-106)
_video_duration(video) == IF ~video.opens THEN 0 ELSE video.duration

\* round(num / den) of Python: to the nearest integer, a tie to the even one
RoundHalfEven(num, den) ==
    LET q == num \div den
        r == num % den
    IN  IF 2 * r < den THEN q
        ELSE IF 2 * r > den THEN q + 1
        ELSE IF q % 2 = 0 THEN q ELSE q + 1

\* app.py:114-119: candidates round(i * max(duration / 6, 1)), i = 0..5,
\* appended when within the duration and not yet present
RECURSIVE PadTimestamps(_, _, _)
PadTimestamps(timestamps, duration, i) ==
    IF i > 5 THEN timestamps
    ELSE LET candidate == IF duration >= 6 THEN RoundHalfEven(i * duration, 6)
                          ELSE i
             present == \E n \in 1..Len(timestamps) : timestamps[n] = candidate
         IN  PadTimestamps(IF candidate <= duration /\ ~present
                           THEN Append(timestamps, candidate)
                           ELSE timestamps,
                           duration, i + 1)

\* app.py:110-120
PlanTimestamps(duration) ==
    LET within == SelectSeq(THUMB_TIMESTAMPS, LAMBDA t : t <= duration)
        timestamps == IF within = <<>> THEN <<0>> ELSE within
        padded == IF Len(timestamps) < 6 /\ duration > 0
                  THEN PadTimestamps(timestamps, duration, 0)
                  ELSE timestamps
        sorted == SortSeq(padded, LAMBDA a, b : a < b)
    IN  SubSeq(sorted, 1, Min2(6, Len(sorted)))

\* app.py:122-131: the entries of the timestamps whose frame is decoded
RECURSIVE ThumbsFrom(_, _, _, _)
ThumbsFrom(video, timestamps, decodes, idx) ==
    IF idx > Len(timestamps) THEN <<>>
    ELSE (IF _extract_frame(video, decodes[idx]) = None THEN <<>>
          ELSE <<[timestamp |-> timestamps[idx], idx |-> idx - 1]>>)
         \o ThumbsFrom(video, timestamps, decodes, idx + 1)

_build_thumbnail_list(video, decodes) ==
    ThumbsFrom(video, PlanTimestamps(_video_duration(video)), decodes, 1)

ThumbVideos ==
    {Video(FALSE, 0)} \cup {Video(TRUE, d) : d \in 0..MaxThumbDuration}

InitThumbs ==
    /\ InitJobs
    /\ InitDedupeIdle
    /\ fn_in \in [video : ThumbVideos, decodes : [1..6 -> BOOLEAN]]
    /\ fn_out = <<>>
    /\ fn_pc = "ready"

ThumbsCall ==
    /\ fn_pc = "ready"
    /\ fn_out' = _build_thumbnail_list(fn_in.video, fn_in.decodes)
    /\ fn_pc' = "done"
    /\ UNCHANGED <<fn_in, jobVars, hist, lockVars, ddVars>>

SpecThumbs == InitThumbs /\ [][ThumbsCall]_vars

-----------------------------------------------------------------------------
(* Properties *)

Terminal == {"done", "error", "cancelled"}
ControlOps == {"select_frame", "set_roi", "start_ocr", "reset_roi", "download"}

\* worker w takes its last step: it returns, or falls off the end
Finishes(w) == workers[w].pc # "idle" /\ workers'[w].pc = "idle"

RunningOn(j) == {w \in Running : workers[w].job_id = j}

\* C1: when the cancellation flag of a job is set (reset_roi set it after
\* the run's start and no later start cleared it) at the moment the job's
\* worker writes its final status, that status is `cancelled`, never `done`
\* or `error`.
C1_CancelledRunEndsCancelled ==
    [][\A w \in DOMAIN workers :
          (Finishes(w) /\ Known(workers[w].job_id)
                       /\ JOBS[workers[w].job_id].cancel_requested)
          => JOBS'[workers[w].job_id].status = "cancelled"]_vars

\* C2: set_roi on an existing job with w > 0 and h > 0 attaches the ROI
\* (x, y, w, h), clears the error and sets status roi_set; with w <= 0 or
\* h <= 0 it leaves status and ROI as they were and sets a non-empty error.
C2_SetRoi ==
    [][(lastOp'.op = "set_roi" /\ Known(lastOp'.job) /\ lastOp'.arg.nums # <<>>)
       => LET j == lastOp'.job
              a == lastOp'.arg.nums
          IN  IF a[3] > 0 /\ a[4] > 0
              THEN /\ JOBS'[j].roi = [x |-> a[1], y |-> a[2], w |-> a[3], h |-> a[4]]
                   /\ JOBS'[j].status = "roi_set"
                   /\ JOBS'[j].error = ""
              ELSE /\ JOBS'[j].status = JOBS[j].status
                   /\ JOBS'[j].roi = JOBS[j].roi
                   /\ JOBS'[j].error # ""]_vars

\* a rejected set_roi has acted on a job that is being processed and has an
\* ROI attached
C2_Witness ==
    /\ lastOp.op = "set_roi" /\ Known(lastOp.job) /\ lastOp.arg.nums # <<>>
    /\ ~lastOp.ok
    /\ JOBS[lastOp.job].roi # NoRoi
    /\ JOBS[lastOp.job].status = "processing"
    /\ JOBS[lastOp.job].error = MsgDragRoi

\* reset_roi has just been applied to job j, then in status processing or done
JustReset(j) ==
    /\ lastOp.op = "reset_roi" /\ lastOp.job = j /\ lastOp.ok
    /\ lastOp.arg.text \in {"processing", "done"}

\* what reset_roi leaves on a job that was processing or done
ResetPost ==
    \A j \in DOMAIN JOBS :
       (lastOp'.op = "reset_roi" /\ lastOp'.job = j /\ lastOp'.ok
            /\ JOBS[j].status \in {"processing", "done"})
       => /\ JOBS'[j].cancel_requested
          /\ JOBS'[j].status = IF JOBS[j].selected_frame # None
                               THEN "frame_selected" ELSE "uploaded"

\* C3 as claimed: reset_roi on a job in status processing or done sets the
\* cancellation flag and reverts the status to frame_selected (a preview
\* frame is selected) or uploaded, and the job stays in that status until
\* select_frame, set_roi or start is applied to it.
C3_ResetStays ==
    [][/\ ResetPost
       /\ \A j \in DOMAIN JOBS :
             (JustReset(j) /\ JOBS'[j].status # JOBS[j].status)
             => (lastOp'.job = j /\ lastOp'.op \in {"select_frame", "set_roi",
                                                    "start_ocr"})]_vars

\* C3 amended: reset_roi on a job in status processing or done sets the
\* cancellation flag and reverts the status to frame_selected or uploaded;
\* the status then changes only by a further control operation on the job
\* or by a worker of that job that is still running, which writes
\* processing, cancelled, done or error over it.
C3_ResetStaysUnlessWorker ==
    [][/\ ResetPost
       /\ \A j \in DOMAIN JOBS :
             (JustReset(j) /\ JOBS'[j].status # JOBS[j].status)
             => \/ lastOp'.job = j /\ lastOp'.op \in {"select_frame", "set_roi",
                                                      "start_ocr"}
                \/ /\ RunningOn(j) # {}
                   /\ lastOp'.op = "worker"
                   /\ JOBS'[j].status \in Terminal \cup {"processing"}]_vars

\* reset_roi has acted on a job that was processing, with a preview frame
\* selected and the worker still running
C3_Witness ==
    \E j \in DOMAIN JOBS :
       /\ JustReset(j) /\ lastOp.arg.text = "processing"
       /\ JOBS[j].status = "frame_selected"
       /\ JOBS[j].cancel_requested
       /\ RunningOn(j) # {}

\* C4: once start_ocr has been accepted for an existing job, the flag is
\* false, the progress and line counters are 0, the error is empty and the
\* status is processing.
C4_StartShowsProcessing ==
    (lastOp.op = "start_ocr" /\ lastOp.ok)
    => LET job == JOBS[lastOp.job]
       IN  /\ ~job.cancel_requested
           /\ job.progress_current = 0 /\ job.progress_total = 0
           /\ job.error = ""
           /\ job.raw_line_count = 0 /\ job.cleaned_line_count = 0
           /\ job.status = "processing"

\* C5: select_frame on an existing job stores the timestamp and the frame,
\* clears the ROI and the error and sets status frame_selected when the
\* decode succeeds, and leaves the whole job record as it was when it fails.
C5_SelectFrame ==
    [][(lastOp'.op = "select_frame" /\ Known(lastOp'.job))
       => LET j == lastOp'.job
          IN  IF lastOp'.ok
              THEN /\ JOBS'[j].selected_timestamp = lastOp'.arg.nums
                   /\ JOBS'[j].selected_frame # None
                   /\ JOBS'[j].roi = NoRoi
                   /\ JOBS'[j].error = ""
                   /\ JOBS'[j].status = "frame_selected"
              ELSE JOBS'[j] = JOBS[j]]_vars

\* a select_frame whose decode failed has acted on a job with an ROI
\* attached and an earlier frame selected
C5_Witness ==
    /\ lastOp.op = "select_frame" /\ Known(lastOp.job) /\ ~lastOp.ok
    /\ JOBS[lastOp.job].roi # NoRoi
    /\ JOBS[lastOp.job].selected_frame # None
    /\ JOBS[lastOp.job].status = "roi_set"

\* C6: a control operation on a job id that is not in the registry leaves
\* the registry, the result files and the worker threads as they are; a
\* worker whose job id is not in the registry returns and writes nothing.
C6_UnknownJobNoOp ==
    [][/\ (lastOp'.op \in ControlOps /\ ~Known(lastOp'.job))
          => (JOBS' = JOBS /\ disk' = disk /\ workers' = workers)
       /\ \A w \in DOMAIN workers :
             (workers[w].pc # "idle" /\ ~Known(workers[w].job_id)
                  /\ workers'[w] # workers[w])
             => (JOBS' = JOBS /\ disk' = disk /\ workers'[w].pc = "idle")]_vars

\* start_ocr has acted with an id that is not in the registry, while the
\* registry holds a job
C6_Witness ==
    /\ lastOp.op = "start_ocr" /\ ~Known(lastOp.job)
    /\ DOMAIN JOBS # {}
    /\ Running = {}

\* C7: every worker that was started terminates, and its last write to the
\* job is one of done (with the result text, the result file reference and
\* the line counts), error (with the message of a missing ROI, of a video
\* that does not open, or of an exception) and cancelled (only at the top
\* of a sample iteration where it read the cancellation flag as set).
C7_WorkerEndsTerminal ==
    /\ [][\A w \in DOMAIN workers :
             (Finishes(w) /\ Known(workers[w].job_id))
             => LET wk == workers[w]
                    old == JOBS[wk.job_id]
                    new == JOBS'[wk.job_id]
                IN  /\ new.status \in Terminal
                    /\ new.status = "done"
                       => /\ wk.pc = "publish"
                          /\ new.result_text = wk.result
                          /\ new.result_file # None
                          /\ new.raw_line_count = wk.raw_count
                          /\ new.cleaned_line_count = Len(wk.result)
                    /\ new.status = "error"
                       => \/ new.error = MsgNoRoi /\ wk.roi = NoRoi
                          \/ new.error = MsgCannotOpen /\ ~old.video.opens
                          \/ new.error = MsgException /\ wk.pc = "except"
                    /\ new.status = "cancelled"
                       => wk.pc = "poll" /\ old.cancel_requested]_vars
    /\ \A w \in 1..MaxWorkers :
          (workers[w].pc # "idle") ~> (workers[w].pc = "idle")

\* a run has ended in done with a transcript of at least one line
C7_Witness ==
    \E j \in DOMAIN JOBS :
       /\ JOBS[j].status = "done"
       /\ JOBS[j].cleaned_line_count > 0
       /\ JOBS[j].result_file # None
       /\ Running = {}

\* floor(min(D, 60) / 2) + 1 with the cap, floor(D / 2) + 1 without
ExpectedSamples(D, capped) ==
    (IF capped THEN (IF D <= 60 THEN D ELSE 60) ELSE D) \div 2 + 1

C9_NoSimilarPair ==
    dd_pc = "done"
    => \A i, j \in 1..Len(dd_out) :
          i # j => ~RatioAtLeast(dd_out[i], dd_out[j], 88)

\* the normalized input lines, and the position in the input at which an
\* output line is first seen
Normalized == [i \in 1..Len(dd_lines) |-> _normalize_text(dd_lines[i])]
FirstSeen(line) ==
    CHOOSE i \in 1..Len(dd_lines) :
       Normalized[i] = line /\ \A m \in 1..(i - 1) : Normalized[m] # line

\* C10: the output of _dedupe_lines is a subsequence of the normalized
\* input in first-seen order without repetition; the first input line that
\* is not empty after normalization is kept; an input line is dropped only
\* if it is empty after normalization, equal to a kept line, or scores
\* >= 0.88 against a line kept before it.
C10_DedupeSubsequence ==
    dd_pc = "done"
    => LET out == dd_out
           kept == {out[k] : k \in 1..Len(out)}
           nonempty == {i \in 1..Len(dd_lines) : Normalized[i] # <<>>}
       IN  /\ \A k \in 1..Len(out) : \E i \in nonempty : Normalized[i] = out[k]
           /\ \A k, m \in 1..Len(out) :
                 k < m => out[k] # out[m] /\ FirstSeen(out[k]) < FirstSeen(out[m])
           /\ nonempty # {}
                 => out # <<>>
                    /\ FirstSeen(out[1]) = CHOOSE i \in nonempty :
                                              \A m \in nonempty : i <= m
           /\ \A i \in nonempty :
                 Normalized[i] \notin kept
                 => \E k \in 1..Len(out) :
                       /\ FirstSeen(out[k]) < i
                       /\ RatioAtLeast(Normalized[i], out[k], 88)

\* a line that differs from the kept one and scores >= 0.88 against it has
\* been dropped, as has an exact repetition
C10_Witness ==
    /\ dd_pc = "done"
    /\ Len(dd_lines) = 3
    /\ Len(dd_out) = 1
    /\ Normalized[1] = Jamak
    /\ Normalized[2] = Jamak
    /\ Normalized[3] = JamakSpaced

\* C11: the filter accepts a raw line exactly when its normalized form is
\* longer than 3 characters, its Hangul ratio is >= the mode's minimum and
\* its ASCII-alphanumeric and special ratios are <= the mode's maxima
\* (default 0.30/0.55/0.45, Korean-only 0.45/0.35/0.35, include-English
\* 0.20/0.75/0.45); a normalized line of <= 3 characters is rejected in
\* every mode, and Korean-only rejects a Hangul ratio < 0.45.
C11_FilterAccepts ==
    fn_pc = "done"
    => LET line == _normalize_text(fn_in.line)
           n == Len(line)
           kor == Cardinality({i \in 1..n : line[i] \in Hangul})
           latin == Cardinality({i \in 1..n : line[i] \in AsciiAlnum})
           special == Cardinality({i \in 1..n : line[i] \notin
                                     Hangul \cup AsciiAlnum \cup {" ", "\t"}})
           min_kor == IF fn_in.korean_only THEN 45
                      ELSE IF fn_in.include_english THEN 20 ELSE 30
           max_latin == IF fn_in.korean_only THEN 35
                        ELSE IF fn_in.include_english THEN 75 ELSE 55
           max_special == IF fn_in.korean_only THEN 35 ELSE 45
           accepted == fn_out = <<line>>
           rejected == fn_out = <<>>
       IN  /\ accepted \/ rejected
           /\ accepted <=> /\ n > 3
                           /\ 100 * kor >= min_kor * n
                           /\ 100 * latin <= max_latin * n
                           /\ 100 * special <= max_special * n
           /\ n <= 3 => rejected
           /\ (fn_in.korean_only /\ 100 * kor < 45 * n) => rejected

\* Korean-only mode has rejected a line of Hangul ratio 0.40 whose ratios
\* pass the default thresholds
C11_Witness ==
    /\ fn_pc = "done"
    /\ fn_in.line = Mix(8, 7, 5)
    /\ fn_in.korean_only /\ ~fn_in.include_english
    /\ fn_out = <<>>
    /\ AcceptLine(fn_in.line, FALSE, FALSE)

\* C12: for every duration and every outcome of the frame decodes,
\* _build_thumbnail_list returns between 1 and 6 entries, strictly sorted
\* by ascending timestamp, each with a timestamp <= the video duration.
C12_ThumbnailList ==
    fn_pc = "done"
    => /\ Len(fn_out) >= 1
       /\ Len(fn_out) <= 6
       /\ \A i, j \in 1..Len(fn_out) :
             i < j => fn_out[i].timestamp < fn_out[j].timestamp
       /\ \A i \in 1..Len(fn_out) :
             fn_out[i].timestamp <= _video_duration(fn_in.video)

\* C13: every read and write of a job's mutable fields by a request
\* handler or by the worker happens while the executing thread holds the
\* registry lock, so no two threads are inside their accesses to the same
\* job at the same time with one of them writing.
C13_AccessUnderLock ==
    /\ handler.pc # "idle" => lock = HeldByHandler
    /\ \A w \in DOMAIN workers :
          workers[w].pc \in {"poll_get", "poll_put"}
          => /\ lock = HeldByWorker(w)
             /\ ~(handler.pc # "idle" /\ handler.job_id = workers[w].job_id)

\* C14: from the moment a start is accepted for a job until the job's
\* status next becomes done, error or cancelled, the timestamps of the
\* samples taken up for the job are strictly increasing and progress_current
\* and progress_total never decrease from one state to the next.  (The step
\* of a further accepted start, which begins a new such stretch, is not
\* held against the claim.)
C14_OrderedProgress ==
    [][\A j \in DOMAIN JOBS :
          (hist.open[j] /\ ~Started(j))
          => /\ JOBS'[j].progress_current >= JOBS[j].progress_current
             /\ JOBS'[j].progress_total >= JOBS[j].progress_total
             /\ \A w \in DOMAIN workers :
                   (TookUp(w) /\ workers[w].job_id = j)
                   => workers[w].samples[workers[w].idx] > hist.last[j]]_vars

\* C16: at every moment at most one worker is running for any given job.
C16_OneWorkerPerJob ==
    \A j \in DOMAIN JOBS : Cardinality(RunningOn(j)) <= 1

\* C18: the configuration a run uses is the one the job held when the run's
\* start was accepted: the duration cap the worker reads when it plans its
\* samples, and the page-segmentation mode, the language and the
\* Korean-only flag every sample that reaches the OCR is processed with.
C18_ConfigSnapshot ==
    [][\A w \in DOMAIN workers :
          LET wk == workers[w]
              after == workers'[w]
              cfg == hist.cfg[w]
          IN  /\ (wk.pc = "open" /\ after.pc = "set_total")
                 => after.limit = cfg.limit_to_60
              /\ (wk.pc = "sample" /\ after.raw_count # wk.raw_count)
                 => /\ after.psm = cfg.psm_mode
                    /\ after.lang = (IF cfg.include_english THEN "kor+eng" ELSE "kor")
                    /\ after.korean = cfg.korean_only]_vars

\* C20: in every reachable state of every job,
\* 0 <= progress_current <= progress_total.
C20_ProgressWithinTotal ==
    \A j \in DOMAIN JOBS :
       /\ 0 <= JOBS[j].progress_current
       /\ JOBS[j].progress_current <= JOBS[j].progress_total

\* C15: the worker reads the cancellation flag once at the top of every
\* sample iteration, holding the lock, before the decode of that sample
\* (a sample is entered only from the poll block, with the flag read as
\* clear, and the samples taken up are exactly the polls passed); once it
\* has read the flag as set, its next and last step writes `cancelled` and
\* leaves progress_current, the result text, the result file reference and
\* the file on disk as they are.
C15_PollThenStop ==
    /\ \A w \in DOMAIN workers :
          /\ workers[w].pc \in {"poll_get", "poll_put"} => lock = HeldByWorker(w)
          /\ workers[w].pc = "sample" => Len(workers[w].attempted) = workers[w].idx
          /\ workers[w].pc \in {"poll", "poll_get", "poll_put"}
             => Len(workers[w].attempted) = workers[w].idx - 1
    /\ [][\A w \in DOMAIN workers :
             /\ (workers'[w].pc = "sample" /\ workers[w].pc # "sample")
                => /\ workers[w].pc = "poll_put"
                   /\ ~workers[w].flag
                   /\ lock = HeldByWorker(w)
             /\ (workers[w].pc = "poll_put" /\ workers[w].flag
                    /\ workers'[w] # workers[w])
                => LET j == workers[w].job_id
                   IN  /\ workers'[w] = IdleWorker
                       /\ JOBS'[j].status = "cancelled"
                       /\ JOBS'[j].progress_current = JOBS[j].progress_current
                       /\ JOBS'[j].result_text = JOBS[j].result_text
                       /\ JOBS'[j].result_file = JOBS[j].result_file
                       /\ disk' = disk]_vars

\* a worker has just ended its run at a poll that read the flag as set,
\* after at least one sample was taken up
C15_Witness ==
    \E j \in DOMAIN JOBS :
       /\ lastOp.op = "worker"
       /\ JOBS[j].status = "cancelled"
       /\ JOBS[j].cancel_requested
       /\ JOBS[j].progress_current >= 1
       /\ RunningOn(j) = {}

\* C17: after reset_roi on an existing job, in any status (stated for a
\* job with no worker running, so that nothing else writes), the job has no
\* ROI, its error is empty, its counters raw_line_count, cleaned_line_count,
\* progress_current and progress_total are 0, and its status is
\* frame_selected when a preview frame is selected and uploaded otherwise.
C17_ResetClears ==
    \A j \in DOMAIN JOBS :
       (lastOp.op = "reset_roi" /\ lastOp.job = j /\ lastOp.ok
          /\ RunningOn(j) = {})
       => /\ JOBS[j].roi = NoRoi
          /\ JOBS[j].error = ""
          /\ JOBS[j].raw_line_count = 0
          /\ JOBS[j].cleaned_line_count = 0
          /\ JOBS[j].progress_current = 0
          /\ JOBS[j].progress_total = 0
          /\ JOBS[j].status = IF JOBS[j].selected_frame # None
                              THEN "frame_selected" ELSE "uploaded"

\* worker w has just taken the step of a sample whose frame read failed
SkipsFailedRead(w) ==
    /\ workers[w].pc = "sample"
    /\ workers'[w] # workers[w]
    /\ lastOp'.op = "worker" /\ lastOp'.arg.text = "read_fail"

\* after a sample step the worker is at the next poll, or past the loop
\* when that was the last sample
GoesOn(w) ==
    /\ workers'[w].idx = workers[w].idx + 1
    /\ workers'[w].samples = workers[w].samples
    /\ workers'[w].pc = IF workers[w].idx < Len(workers[w].samples)
                        THEN "poll" ELSE "write_file"

=============================================================================
